---- MODULE Spec2Model ----
(***************************************************************************)
(* Download orchestration and progress tracking of the YouTube downloader  *)
(* (src/downloader.py, src/app.py).                                        *)
(*                                                                         *)
(* The tracker is the five module-level globals of downloader.py.  It is   *)
(* written by download_media (the reset, the file label) and by            *)
(* progress_hook, which the pipeline (yt-dlp) calls synchronously while    *)
(* download_media blocks, and it is read by get_download_progress.         *)
(*                                                                         *)
(* Strings that the code takes apart (file names, messages) are sequences  *)
(* of tokens, so that prefix, suffix and concatenation are computed.       *)
(***************************************************************************)
EXTENDS Integers, Sequences, FiniteSets, TLC

VARIABLES
    \* the tracker: downloader.py, lines 17-21
    current_download_progress,
    current_download_file,
    current_download_phase,
    download_eta,
    post_processing_progress,
    \* the environment: downloader.py, line 24 (TRUE: a key is set)
    YOUTUBE_API_KEY,
    \* one download_media call per element of Runs
    pc,            \* where the call is
    format_type,   \* its arguments
    quality,
    video_title,   \* its locals
    temp_dir,      \* the files in the directory mkdtemp gave it
    raised,        \* the exception that left download_media, or NoExc
    cause,         \* the first exception raised inside the call (the end of
                   \* the __context__ chain of `raised`), or NoExc
    returned,      \* the file name download_media returned, or <<>>
    request,       \* the url get_video_info was given and the video id it
                   \* took from it (<<>>: none), while the call waits on the
                   \* catalog and after get_video_info raised; else NoRequest
    warned,        \* the call logged "Expected file not found" (line 294)
    \* the /download endpoint of app.py around the call
    response,      \* the response it returned, or NoResponse
    \* a progress_hook call in the thread of a run, statement by statement
    hook_pc,       \* the line it is at, or "idle"
    hook_d,        \* its argument
    \* a get_download_progress call in a polling thread, statement by statement
    poll_pc,       \* the line it is at, "idle", or "returned"
    poll_overall,  \* its local overall_progress
    snapshot,      \* the dict it builds and returns
    \* history: what the tracker showed when the last writer (reset, file
    \* label, event) was through, and the such values of the time of a poll
    committed,
    seen

tracker == <<current_download_progress, current_download_file,
             current_download_phase, download_eta, post_processing_progress>>
runVars == <<pc, format_type, quality, video_title, temp_dir, raised, cause, returned>>
hookVars == <<hook_pc, hook_d>>
pollVars == <<poll_pc, poll_overall, snapshot>>
histVars == <<committed, seen>>
threadVars == <<hookVars, pollVars, histVars>>
appVars == <<request, warned, response>>
vars == <<tracker, YOUTUBE_API_KEY, runVars, appVars, threadVars>>

---------------------------------------------------------------------------
(* Inputs *)

Runs == {"r1", "r2"}

\* a string-valued key that a dict does not hold, and Python's None where a
\* string is expected
Absent == "absent"
None == "None"

\* a number-valued key of a dict: not held, held with None, held with n
NoKey == [has |-> FALSE, none |-> FALSE, val |-> 0]
NoneValue == [has |-> TRUE, none |-> TRUE, val |-> 0]
Num(n) == [has |-> TRUE, none |-> FALSE, val |-> n]

Formats == {"mp3", "mp4", "wav"}
Qualities == {"720p", "128kbps", None}

\* titles as the catalog API returns them
RawTitles == {<<"Demo">>, <<"AC", "/", "DC">>}

\* byte counts and totals of the pipeline's progress events
ByteCounts == {0, 29, 92, 150}
TotalBytes == {NoKey, NoneValue, Num(0), Num(100)}
TotalEstimates == {NoKey, Num(0), Num(200)}
EtaStrings == {Absent, "00:05"}
Postprocessors == {Absent, "MoveFiles", "FFmpegVideoConvertor", "FFmpegExtractAudio", "Metadata"}

DownloadingEvents ==
    [status : {"downloading"}, downloaded_bytes : ByteCounts, total_bytes : TotalBytes,
     total_bytes_estimate : TotalEstimates, eta_str : EtaStrings, postprocessor : {Absent}]
FinishedEvents ==
    [status : {"finished"}, downloaded_bytes : {0}, total_bytes : {NoKey},
     total_bytes_estimate : {NoKey}, eta_str : {Absent}, postprocessor : {Absent}]
PostprocessingEvents ==
    [status : {"postprocessing"}, downloaded_bytes : {0}, total_bytes : {NoKey},
     total_bytes_estimate : {NoKey}, eta_str : {Absent}, postprocessor : Postprocessors]
OtherEvents ==
    [status : {"error"}, downloaded_bytes : {0}, total_bytes : {NoKey},
     total_bytes_estimate : {NoKey}, eta_str : {Absent}, postprocessor : {Absent}]
Events == DownloadingEvents \cup FinishedEvents \cup PostprocessingEvents \cup OtherEvents

\* no event: the argument of no call
NoEvent ==
    [status |-> "none", downloaded_bytes |-> 0, total_bytes |-> NoKey,
     total_bytes_estimate |-> NoKey, eta_str |-> Absent, postprocessor |-> Absent]

---------------------------------------------------------------------------
(* Exceptions: a kind (the Python class) and a message (str(e)) *)

Exc(kind, msg) == [kind |-> kind, msg |-> msg]
NoExc == Exc("none", <<>>)
\* get_video_info is not running and has not raised
NoRequest == [url |-> <<>>, video_id |-> <<>>]
\* the endpoint has not answered: nothing was sent
NoResponse == [status |-> 0, body |-> "none", error |-> <<>>, filename |-> <<>>,
               mimetype |-> "", sent |-> FALSE]

\* s[1..n] = p
StartsWith(s, p) == Len(s) >= Len(p) /\ SubSeq(s, 1, Len(p)) = p
\* the end of s is p
EndsWith(s, p) == Len(s) >= Len(p) /\ SubSeq(s, Len(s) - Len(p) + 1, Len(s)) = p

---------------------------------------------------------------------------
(* The progress tracker *)

\* The doubles k/100*100 that fall short of k, for k <= 200: 29/100*100 is
\* 28.999999999999996.
FloatShort == {29, 57, 58, 113, 114, 115, 116}

\* int(downloaded / total * 100) in double arithmetic.  A quotient that is no
\* whole number of hundredths is further from an integer than the rounding
\* error, so truncation gives the exact floor; a whole number k of hundredths
\* gives k, or k - 1 where the product rounds below k.  Holds for
\* downloaded <= 2 * total.
PercentOf(downloaded, total) ==
    LET k == (downloaded * 100) \div total
    IN  IF (downloaded * 100) % total = 0 /\ k \in FloatShort THEN k - 1 ELSE k

\* d['total_bytes'] > 0 with d['total_bytes'] None: a TypeError
hook_raises(d) == d.status = "downloading" /\ d.total_bytes.has /\ d.total_bytes.none

hook_TypeError == Exc("TypeError", <<"'>' not supported between instances of 'NoneType' and 'int'">>)

\* lines 41-44
downloading_progress(d) ==
    IF d.total_bytes.has /\ d.total_bytes.val > 0
    THEN PercentOf(d.downloaded_bytes, d.total_bytes.val)
    ELSE IF d.total_bytes_estimate.has /\ d.total_bytes_estimate.val > 0
    THEN PercentOf(d.downloaded_bytes, d.total_bytes_estimate.val)
    ELSE current_download_progress

\* lines 58-64
postprocessing_progress(d) ==
    IF d.postprocessor = "MoveFiles" THEN 80
    ELSE IF d.postprocessor = "FFmpegVideoConvertor" THEN 90
    ELSE IF d.postprocessor = "FFmpegExtractAudio" THEN 95
    ELSE post_processing_progress

\* progress_hook(d), the whole call, when it raises nothing
progress_hook(d) ==
    IF d.status = "downloading" THEN
        /\ current_download_phase' = "Downloading"
        /\ current_download_progress' = downloading_progress(d)
        /\ download_eta' = IF d.eta_str # Absent THEN d.eta_str ELSE download_eta
        /\ UNCHANGED <<current_download_file, post_processing_progress>>
    ELSE IF d.status = "finished" THEN
        /\ current_download_phase' = "Processing"
        /\ current_download_progress' = 100
        /\ download_eta' = ""
        /\ UNCHANGED <<current_download_file, post_processing_progress>>
    ELSE IF d.status = "postprocessing" THEN
        /\ current_download_phase' = "Processing"
        /\ post_processing_progress' = postprocessing_progress(d)
        /\ UNCHANGED <<current_download_file, current_download_progress, download_eta>>
    ELSE UNCHANGED tracker

\* progress_hook(d) up to the TypeError of line 41
progress_hook_raising ==
    /\ current_download_phase' = "Downloading"
    /\ UNCHANGED <<current_download_file, current_download_progress, download_eta,
                   post_processing_progress>>

\* lines 178-182
overall_progress ==
    IF current_download_phase = "Processing" /\ post_processing_progress > 0
    THEN post_processing_progress
    ELSE current_download_progress

\* the dict get_download_progress returns
get_download_progress ==
    [progress |-> overall_progress, file |-> current_download_file,
     phase |-> current_download_phase, eta |-> download_eta]

\* no dict yet
NoSnapshot == [progress |-> 0, file |-> <<>>, phase |-> "none", eta |-> ""]

\* the percent, phase and eta of a snapshot
Triple(snap) == <<snap.progress, snap.phase, snap.eta>>

\* the reset, had it been skipped while another call is under way
reset_progress_UnlessBusy ==
    IF \E r \in {"r1", "r2"} : pc[r] # "idle"
    THEN UNCHANGED <<current_download_progress, current_download_file,
                     current_download_phase, download_eta, post_processing_progress>>
    ELSE /\ current_download_progress' = 0
         /\ current_download_phase' = "Preparing"
         /\ download_eta' = ""
         /\ post_processing_progress' = 0
         /\ UNCHANGED current_download_file

\* download_media, lines 206-209
reset_progress ==
    /\ current_download_progress' = 0
    /\ current_download_phase' = "Preparing"
    /\ download_eta' = ""
    /\ post_processing_progress' = 0
    /\ UNCHANGED current_download_file

---------------------------------------------------------------------------
(* URLs: sequences of tokens in which "/", "?" and "&" stand alone *)

Hosts == {"www.youtube.com", "youtube.com", "m.youtube.com"}

Urls == {
    <<"https:", "/", "/", "youtu.be", "/", "abc123">>,
    <<"https:", "/", "/", "youtu.be", "/", "abc123", "?", "t=", "10s">>,
    <<"https:", "/", "/", "www.youtube.com", "/", "watch", "?", "v=", "abc123">>,
    <<"https:", "/", "/", "www.youtube.com", "/", "watch", "?", "v=", "abc123", "&", "feature=", "youtu.be">>,
    <<"https:", "/", "/", "www.youtube.com", "/", "watch", "?", "t=", "10s">>,
    <<"https:", "/", "/", "www.youtube.com", "/", "shorts", "/", "abc123">>,
    <<"https:", "/", "/", "www.youtube.com", "/", "embed", "/", "abc123">>,
    <<"https:", "/", "/", "www.youtube.com", "/", "embed", "/", "abc123", "/">>,
    <<"https:", "/", "/", "example.com", "/", "video">> }

\* the places of token sep in s
Places(s, sep) == {i \in 1..Len(s) : s[i] = sep}
Max(S) == CHOOSE x \in S : \A y \in S : y <= x
Min(S) == CHOOSE x \in S : \A y \in S : x <= y

\* s.split(sep)[-1] and s.split(sep)[0]
LastPart(s, sep) ==
    IF Places(s, sep) = {} THEN s ELSE SubSeq(s, Max(Places(s, sep)) + 1, Len(s))
FirstPart(s, sep) ==
    IF Places(s, sep) = {} THEN s ELSE SubSeq(s, 1, Min(Places(s, sep)) - 1)

\* urlparse(url).query: what follows the first "?"
Query(url) ==
    IF Places(url, "?") = {} THEN <<>> ELSE SubSeq(url, Min(Places(url, "?")) + 1, Len(url))

\* parse_qs(query).get('v', [''])[0]: the value of the first pair named v
\* that has a value (parse_qs drops blank values)
RECURSIVE QueryV(_)
QueryV(q) ==
    IF q = <<>> THEN <<>>
    ELSE LET pair == FirstPart(q, "&")
             rest == IF Places(q, "&") = {} THEN <<>>
                     ELSE SubSeq(q, Min(Places(q, "&")) + 1, Len(q))
         IN  IF Len(pair) > 1 /\ pair[1] = "v=" THEN Tail(pair) ELSE QueryV(rest)

\* 'youtu.be' in url
HasShortHost(url) == \E i \in 1..Len(url) : url[i] = "youtu.be"
\* 'youtube.com/<word>' in url
HasPath(url, word) ==
    \E i \in 1..Len(url) - 2 : url[i] \in Hosts /\ url[i + 1] = "/" /\ url[i + 2] = word

\* extract_video_id up to line 84: <<>> is the empty string
video_id_of(url) ==
    IF HasShortHost(url) THEN FirstPart(LastPart(url, "/"), "?")
    ELSE IF HasPath(url, "watch") THEN QueryV(Query(url))
    ELSE IF HasPath(url, "shorts") THEN FirstPart(LastPart(url, "/"), "?")
    ELSE IF HasPath(url, "embed") THEN FirstPart(LastPart(url, "/"), "?")
    ELSE <<>>

\* lines 86-87
extract_video_id_raises(url) == video_id_of(url) = <<>>

---------------------------------------------------------------------------
(* File names and messages *)

InvalidChars == {"\\", "/", "*", "?", ":", "\"", "<", ">", "|"}

clean_filename(filename) ==
    [i \in 1..Len(filename) |-> IF filename[i] \in InvalidChars THEN "_" ELSE filename[i]]

\* download_mp4 line 237, download_mp3 lines 269 and 288 (names within temp_dir)
mp4_output_file(title) == title \o <<".mp4">>
mp3_output_file(title) == title \o <<".mp3">>
mp3_final_output(title) == <<"temp_">> \o title \o <<".mp3">>

\* the test of the scan, had it looked at the prefix alone
is_temp_mp3_PrefixOnly(file) == StartsWith(file, <<"temp_">>)

\* file.startswith("temp_") and file.endswith(".mp3")
is_temp_mp3(file) == StartsWith(file, <<"temp_">>) /\ EndsWith(file, <<".mp3">>)

\* a copy in place of the rename: src stays
rename_KeepsSource(dir, src, dst) == dir \cup {dst}

\* os.rename(src, dst) on the set of names of a directory
rename(dir, src, dst) == (dir \ {src}) \cup {dst}

\* what the pipeline may leave in temp_dir
PipelineFiles(fmt, title) ==
    IF fmt = "mp4" THEN {mp4_output_file(title)}
    ELSE {mp3_final_output(title), <<"temp_", "x", ".mp3">>, <<"temp_", "y", ".mp3">>,
          <<"temp_">> \o title \o <<".webm">>}

\* the failures of the collaborators
mkdtemp_OSError == Exc("OSError", <<"[Errno 28] No space left on device">>)
rename_OSError == Exc("OSError", <<"[Errno 13] Permission denied">>)
PipelineErrors == {Exc("DownloadError", <<"ERROR:", "HTTP Error 400">>),
                   Exc("DownloadError", <<"ERROR:", "Video unavailable">>)}

\* what the catalog API request may come to (lines 102-118)
Responses ==
    {[kind |-> "RequestException", exc |-> Exc("RequestException", <<"Connection refused">>), title |-> <<>>],
     [kind |-> "status", exc |-> Exc("ValueError", <<"YouTube API error:", "500">>), title |-> <<>>],
     [kind |-> "no_items", exc |-> Exc("ValueError", <<"Video not found or unavailable">>), title |-> <<>>],
     [kind |-> "bad_duration", exc |-> Exc("ValueError", <<"invalid literal for int() with base 10">>), title |-> <<>>]}
    \cup {[kind |-> "ok", exc |-> NoExc, title |-> t] : t \in RawTitles}

\* get_video_info, lines 93-94 and the handlers of lines 142-147
no_key_ValueError == Exc("ValueError", <<"YouTube API key is required but not set">>)
no_id_ValueError == Exc("ValueError", <<"Could not extract video ID from URL">>)
get_video_info_handler(e) ==
    IF e.kind = "RequestException"
    THEN Exc("ValueError", <<"Network error:">> \o e.msg)
    ELSE Exc("ValueError", <<"Error retrieving video info:">> \o e.msg)

\* the handlers of download_mp4 (257-262) and download_mp3 (304-309)
download_mp4_handler(e) == Exc("ValueError", <<"Download failed:">> \o e.msg)
download_mp3_handler(e) == Exc("ValueError", <<"Download failed:">> \o e.msg)

\* download_media's handler, had it been written `except ValueError`
download_media_handler_ValueErrorOnly(e) ==
    IF e.kind = "ValueError" THEN Exc("ValueError", <<"Download failed:">> \o e.msg) ELSE e

\* the handler of download_media (228-230): every Exception
download_media_handler(e) == Exc("ValueError", <<"Download failed:">> \o e.msg)

\* int(resolution.replace('p', '')) and bitrate.replace('kbps', ''): the
\* exception raised, or NoExc
mp4_quality_error(q) ==
    IF q = None THEN Exc("AttributeError", <<"'NoneType' object has no attribute 'replace'">>)
    ELSE IF q = "720p" THEN NoExc
    ELSE Exc("ValueError", <<"invalid literal for int() with base 10">>)
mp3_quality_error(q) ==
    IF q = None THEN Exc("AttributeError", <<"'NoneType' object has no attribute 'replace'">>)
    ELSE NoExc

---------------------------------------------------------------------------
(* download_media: one call per run.  A call is at "idle" (not started),   *)
(* "resolving" (blocked in the catalog request), "pipeline" (blocked in    *)
(* ydl.download), "finalize" (download_mp3 after the pipeline), "returned" *)
(* or "raised".                                                            *)

Init ==
    /\ current_download_progress = 0
    /\ current_download_file = <<>>
    /\ current_download_phase = "Preparing"
    /\ download_eta = ""
    /\ post_processing_progress = 0
    /\ YOUTUBE_API_KEY \in BOOLEAN
    /\ pc = [r \in Runs |-> "idle"]
    /\ format_type = [r \in Runs |-> "mp3"]
    /\ quality = [r \in Runs |-> None]
    /\ video_title = [r \in Runs |-> <<>>]
    /\ temp_dir = [r \in Runs |-> {}]
    /\ raised = [r \in Runs |-> NoExc]
    /\ cause = [r \in Runs |-> NoExc]
    /\ returned = [r \in Runs |-> <<>>]
    /\ request = [r \in Runs |-> NoRequest]
    /\ warned = [r \in Runs |-> FALSE]
    /\ response = [r \in Runs |-> NoResponse]
    /\ hook_pc = [r \in Runs |-> "idle"]
    /\ hook_d = [r \in Runs |-> NoEvent]
    /\ poll_pc = "idle"
    /\ poll_overall = 0
    /\ snapshot = NoSnapshot
    /\ committed = <<0, "Preparing", "">>
    /\ seen = {}

\* no other call is in flight
SingleFlight(r) == \A o \in Runs \ {r} : pc[o] = "idle"

\* exception e, which began as `original`, reaches the except clause of
\* download_media
Raise(r, original, e) ==
    /\ pc' = [pc EXCEPT ![r] = "raised"]
    /\ raised' = [raised EXCEPT ![r] = download_media_handler(e)]
    /\ cause' = [cause EXCEPT ![r] = original]

\* lines 213-217, to the catalog request of get_video_info (line 102)
to_request(r, url, mkdtemp_ok) ==
    IF ~mkdtemp_ok THEN Raise(r, mkdtemp_OSError, mkdtemp_OSError) /\ UNCHANGED request
    ELSE IF ~YOUTUBE_API_KEY
    THEN Raise(r, no_key_ValueError, no_key_ValueError) /\ UNCHANGED request
    ELSE IF extract_video_id_raises(url)
    THEN /\ Raise(r, no_id_ValueError, get_video_info_handler(no_id_ValueError))
         /\ request' = [request EXCEPT ![r] = [url |-> url, video_id |-> <<>>]]
    ELSE /\ pc' = [pc EXCEPT ![r] = "resolving"]
         /\ request' = [request EXCEPT ![r] = [url |-> url, video_id |-> video_id_of(url)]]
         /\ UNCHANGED <<raised, cause>>

\* lines 206-217, to the catalog request
Start(r, url, fmt, q, mkdtemp_ok) ==
    /\ pc[r] = "idle"
    /\ reset_progress
    /\ format_type' = [format_type EXCEPT ![r] = fmt]
    /\ quality' = [quality EXCEPT ![r] = q]
    /\ temp_dir' = [temp_dir EXCEPT ![r] = {}]
    /\ to_request(r, url, mkdtemp_ok)
    /\ UNCHANGED <<video_title, returned, YOUTUBE_API_KEY>>

\* a failed resolution, had download_media gone on to the pipeline
ResolveFails_GoesOn(r, resp) ==
    /\ pc[r] = "resolving"
    /\ resp.kind # "ok"
    /\ pc' = [pc EXCEPT ![r] = "pipeline"]
    /\ UNCHANGED <<tracker, YOUTUBE_API_KEY, format_type, quality, video_title, temp_dir,
                   raised, cause, returned, request>>

\* the catalog request fails, or get_video_info raises on its answer
ResolveFails(r, resp) ==
    /\ pc[r] = "resolving"
    /\ resp.kind # "ok"
    /\ Raise(r, resp.exc, get_video_info_handler(resp.exc))
    /\ UNCHANGED request
    /\ UNCHANGED <<tracker, YOUTUBE_API_KEY, format_type, quality, video_title, temp_dir, returned>>

\* get_video_info returns: lines 218-226 and the downloaders up to ydl.download
Resolved(r, resp) ==
    /\ pc[r] = "resolving"
    /\ resp.kind = "ok"
    /\ request' = [request EXCEPT ![r] = NoRequest]
    /\ video_title' = [video_title EXCEPT ![r] = clean_filename(resp.title)]
    /\ current_download_file' = clean_filename(resp.title)
    /\ UNCHANGED <<current_download_progress, current_download_phase, download_eta,
                   post_processing_progress>>
    /\ IF format_type[r] = "mp4" THEN
            IF mp4_quality_error(quality[r]) # NoExc
            THEN Raise(r, mp4_quality_error(quality[r]),
                       download_mp4_handler(mp4_quality_error(quality[r])))
            ELSE pc' = [pc EXCEPT ![r] = "pipeline"] /\ UNCHANGED <<raised, cause>>
       ELSE IF format_type[r] = "mp3" THEN
            IF mp3_quality_error(quality[r]) # NoExc
            THEN Raise(r, mp3_quality_error(quality[r]),
                       download_mp3_handler(mp3_quality_error(quality[r])))
            ELSE pc' = [pc EXCEPT ![r] = "pipeline"] /\ UNCHANGED <<raised, cause>>
       ELSE Raise(r, Exc("ValueError", <<"Unsupported format:", format_type[r]>>),
                  Exc("ValueError", <<"Unsupported format:", format_type[r]>>))
    /\ UNCHANGED <<YOUTUBE_API_KEY, format_type, quality, temp_dir, returned>>

\* the handler of the downloader the call is in
downloader_handler(r, e) ==
    IF format_type[r] = "mp4" THEN download_mp4_handler(e) ELSE download_mp3_handler(e)

\* the pipeline delivers event d to progress_hook, which returns
HookEvent(r, d) ==
    /\ pc[r] = "pipeline"
    /\ ~hook_raises(d)
    /\ progress_hook(d)
    /\ UNCHANGED <<YOUTUBE_API_KEY, runVars>>

\* the pipeline delivers event d to progress_hook, which raises: the
\* exception leaves ydl.download
HookRaises(r, d) ==
    /\ pc[r] = "pipeline"
    /\ hook_raises(d)
    /\ progress_hook_raising
    /\ Raise(r, hook_TypeError, downloader_handler(r, hook_TypeError))
    /\ UNCHANGED <<YOUTUBE_API_KEY, format_type, quality, video_title, temp_dir, returned>>

\* ydl.download raises a DownloadError
PipelineFails(r, e, files) ==
    /\ pc[r] = "pipeline"
    /\ temp_dir' = [temp_dir EXCEPT ![r] = files]
    /\ Raise(r, e, downloader_handler(r, e))
    /\ UNCHANGED <<tracker, YOUTUBE_API_KEY, format_type, quality, video_title, returned>>

\* the return of the pipeline, had it marked the download complete
PipelineReturns_Completes(r, files) ==
    /\ pc[r] = "pipeline"
    /\ temp_dir' = [temp_dir EXCEPT ![r] = files]
    /\ current_download_phase' = "Complete"
    /\ IF format_type[r] = "mp4"
       THEN /\ pc' = [pc EXCEPT ![r] = "returned"]
            /\ returned' = [returned EXCEPT ![r] = mp4_output_file(video_title[r])]
       ELSE /\ pc' = [pc EXCEPT ![r] = "finalize"]
            /\ UNCHANGED returned
    /\ UNCHANGED <<current_download_progress, current_download_file, download_eta,
                   post_processing_progress, YOUTUBE_API_KEY, format_type, quality,
                   video_title, raised, cause>>

\* ydl.download returns, having left `files` in temp_dir; download_mp4
\* returns its output_file (line 255), download_mp3 goes on to line 288
PipelineReturns(r, files) ==
    /\ pc[r] = "pipeline"
    /\ temp_dir' = [temp_dir EXCEPT ![r] = files]
    /\ IF format_type[r] = "mp4"
       THEN /\ pc' = [pc EXCEPT ![r] = "returned"]
            /\ returned' = [returned EXCEPT ![r] = mp4_output_file(video_title[r])]
       ELSE /\ pc' = [pc EXCEPT ![r] = "finalize"]
            /\ UNCHANGED returned
    /\ UNCHANGED <<tracker, YOUTUBE_API_KEY, format_type, quality, video_title, raised, cause>>

\* the finalizer, had it scanned the listing without trying the expected name
rename_candidates_ScanOnly(dir, title) == {file \in dir : is_temp_mp3(file)}

\* the file the finalizer renames (lines 291-300), as a set: the expected
\* one, else any one of the listing that matches (os.listdir gives no
\* order), else none
rename_candidates(dir, title) ==
    IF mp3_final_output(title) \in dir THEN {mp3_final_output(title)}
    ELSE {file \in dir : is_temp_mp3(file)}

\* download_mp3, lines 288-302, where no os.rename raises
Finalize(r) ==
    /\ pc[r] = "finalize"
    /\ IF rename_candidates(temp_dir[r], video_title[r]) = {}
       THEN UNCHANGED temp_dir
       ELSE \E file \in rename_candidates(temp_dir[r], video_title[r]) :
                temp_dir' = [temp_dir EXCEPT
                    ![r] = rename(temp_dir[r], file, mp3_output_file(video_title[r]))]
    /\ warned' = [warned EXCEPT ![r] = mp3_final_output(video_title[r]) \notin temp_dir[r]]
    /\ pc' = [pc EXCEPT ![r] = "returned"]
    /\ returned' = [returned EXCEPT ![r] = mp3_output_file(video_title[r])]
    /\ UNCHANGED <<tracker, YOUTUBE_API_KEY, format_type, quality, video_title, raised, cause>>

\* download_mp3, lines 288-302, where os.rename raises
FinalizeFails(r) ==
    /\ pc[r] = "finalize"
    /\ rename_candidates(temp_dir[r], video_title[r]) # {}
    /\ warned' = [warned EXCEPT ![r] = mp3_final_output(video_title[r]) \notin temp_dir[r]]
    /\ Raise(r, rename_OSError, download_mp3_handler(rename_OSError))
    /\ UNCHANGED <<tracker, YOUTUBE_API_KEY, format_type, quality, video_title, temp_dir, returned>>

\* the caller has the result (a direct caller the path or the exception, the
\* client of the endpoint the whole response); the run may be used for the
\* next call
Collect(r) ==
    /\ \/ pc[r] \in {"returned", "raised"}
       \/ pc[r] = "responded" /\ (response[r].body = "file" => response[r].sent)
    /\ request' = [request EXCEPT ![r] = NoRequest]
    /\ warned' = [warned EXCEPT ![r] = FALSE]
    /\ response' = [response EXCEPT ![r] = NoResponse]
    /\ pc' = [pc EXCEPT ![r] = "idle"]
    /\ format_type' = [format_type EXCEPT ![r] = "mp3"]
    /\ quality' = [quality EXCEPT ![r] = None]
    /\ video_title' = [video_title EXCEPT ![r] = <<>>]
    /\ temp_dir' = [temp_dir EXCEPT ![r] = {}]
    /\ raised' = [raised EXCEPT ![r] = NoExc]
    /\ cause' = [cause EXCEPT ![r] = NoExc]
    /\ returned' = [returned EXCEPT ![r] = <<>>]
    /\ UNCHANGED <<tracker, YOUTUBE_API_KEY>>

---------------------------------------------------------------------------
(* The /download endpoint of app.py (lines 49-122) around a download_media *)
(* call.  The call it makes is the run; the endpoint goes on from          *)
(* "returned" or "raised" to "responded".                                  *)

\* what request.form.get gives; a url that is missing or empty is <<>> (both
\* are false for `not url`), a format that is missing is None
FormUrls == Urls \cup {<<>>}
FormFormats == Formats \cup {None}

\* jsonify({'error': msg}), status
json_response(status, msg) ==
    [status |-> status, body |-> "json", error |-> msg, filename |-> <<>>,
     mimetype |-> "application/json", sent |-> FALSE]

\* word in msg, for the words the endpoint looks for (each a token)
Mentions(msg, word) == \E i \in DOMAIN msg : msg[i] = word

\* str.lower on a token
lower(token) ==
    CASE token = "ERROR:" -> "error:"
      [] token = "HTTP Error 400" -> "http error 400"
      [] token = "Video unavailable" -> "video unavailable"
      [] token = "Download failed:" -> "download failed:"
      [] token = "FFmpeg" -> "ffmpeg"
      [] token = "Live stream" -> "live stream"
      [] OTHER -> token

\* the except ValueError clause, had it returned jsonify(...) alone
value_error_response_NoStatus(e) == json_response(200, e.msg)

\* the except ValueError clause, lines 105-118
value_error_response(e) ==
    IF Mentions(e.msg, "HTML5 player") \/ Mentions(e.msg, "HTTP Error 400")
    THEN json_response(400, <<"YouTube API error. Please try again later or try a different video.">>)
    ELSE IF \E i \in DOMAIN e.msg : lower(e.msg[i]) = "live stream"
    THEN json_response(400, <<"Live streams are not supported for download.">>)
    ELSE IF \E i \in DOMAIN e.msg : lower(e.msg[i]) = "ffmpeg"
    THEN json_response(400, <<"Error processing media. The video may be in an unsupported format.">>)
    ELSE json_response(400, e.msg)

\* the except Exception clause, lines 119-122
unexpected_response ==
    json_response(500, <<"An unexpected error occurred. Please try again later.">>)

\* lines 70-78, on the extension os.path.splitext gives
mimetype_of(path) ==
    IF path = <<>> THEN "application/octet-stream"
    ELSE IF lower(path[Len(path)]) = ".mp3" THEN "audio/mpeg"
    ELSE IF lower(path[Len(path)]) = ".mp4" THEN "video/mp4"
    ELSE "application/octet-stream"

\* the file size lookup, had it found a size for every path
getsize_raises_Never(dir, path) == FALSE

\* os.path.getsize(download_path), line 99: FileNotFoundError for a name
\* that is not in the directory
getsize_raises(dir, path) == path \notin dir

\* lines 66-103: the streaming response, whose generator has not run yet
file_response(path) ==
    [status |-> 200, body |-> "file", error |-> <<>>, filename |-> path,
     mimetype |-> mimetype_of(path), sent |-> FALSE]

\* lines 56-60: a request the endpoint turns down before any call
Reject(r, url, fmt) ==
    /\ pc[r] = "idle"
    /\ url = <<>> \/ fmt = None \/ fmt \notin {"mp3", "mp4"}
    /\ pc' = [pc EXCEPT ![r] = "responded"]
    /\ response' = [response EXCEPT ![r] =
            IF url = <<>> \/ fmt = None
            THEN json_response(400, <<"URL and format are required">>)
            ELSE json_response(400, <<"Invalid format. Supported formats are mp3 and mp4">>)]
    /\ UNCHANGED <<tracker, YOUTUBE_API_KEY, format_type, quality, video_title, temp_dir,
                   raised, cause, returned, request, warned>>

\* lines 64-122 after downloader.download_media came back: the response
\* the endpoint returns
Respond(r) ==
    /\ pc[r] \in {"returned", "raised"}
    /\ format_type[r] \in {"mp3", "mp4"}
    /\ pc' = [pc EXCEPT ![r] = "responded"]
    /\ response' = [response EXCEPT ![r] =
            IF pc[r] = "raised"
            THEN IF raised[r].kind = "ValueError" THEN value_error_response(raised[r])
                 ELSE unexpected_response
            ELSE IF getsize_raises(temp_dir[r], returned[r]) THEN unexpected_response
            ELSE file_response(returned[r])]
    /\ UNCHANGED <<tracker, YOUTUBE_API_KEY, format_type, quality, video_title, temp_dir,
                   raised, cause, returned, request, warned>>

\* the server iterates generate() (lines 81-87): open, then the chunks; an
\* open that fails ends the body after the status line went out
Stream(r) ==
    /\ pc[r] = "responded"
    /\ response[r].body = "file"
    /\ ~response[r].sent
    /\ response' = [response EXCEPT ![r] =
            IF returned[r] \in temp_dir[r] THEN [@ EXCEPT !.sent = TRUE]
            ELSE [@ EXCEPT !.body = "broken"]]
    /\ UNCHANGED <<tracker, YOUTUBE_API_KEY, runVars, request, warned>>

\* One download_media call at a time (the single in-flight operation the
\* design assumes), each handler step atomic.
Next ==
    \E r \in Runs :
        \/ \E url \in Urls, fmt \in Formats, q \in Qualities, ok \in BOOLEAN :
                SingleFlight(r) /\ Start(r, url, fmt, q, ok)
                    /\ UNCHANGED <<warned, response, threadVars>>
        \/ \E resp \in Responses :
                ResolveFails(r, resp) /\ UNCHANGED <<warned, response, threadVars>>
        \/ \E resp \in Responses :
                Resolved(r, resp) /\ UNCHANGED <<warned, response, threadVars>>
        \/ \E d \in Events : HookEvent(r, d) /\ UNCHANGED <<appVars, threadVars>>
        \/ \E d \in Events : HookRaises(r, d) /\ UNCHANGED <<appVars, threadVars>>
        \/ \E e \in PipelineErrors, files \in SUBSET PipelineFiles(format_type[r], video_title[r]) :
                PipelineFails(r, e, files) /\ UNCHANGED <<appVars, threadVars>>
        \/ \E files \in SUBSET PipelineFiles(format_type[r], video_title[r]) :
                PipelineReturns(r, files) /\ UNCHANGED <<appVars, threadVars>>
        \/ Finalize(r) /\ UNCHANGED <<request, response, threadVars>>
        \/ FinalizeFails(r) /\ UNCHANGED <<request, response, threadVars>>
        \/ Collect(r) /\ UNCHANGED threadVars
        \/ \E url \in FormUrls, fmt \in FormFormats :
                SingleFlight(r) /\ Reject(r, url, fmt) /\ UNCHANGED threadVars
        \/ Respond(r) /\ UNCHANGED threadVars
        \/ Stream(r) /\ UNCHANGED threadVars

Spec == Init /\ [][Next]_vars

---------------------------------------------------------------------------
(* The same program statement by statement: the polling thread runs        *)
(* get_download_progress while the thread of the call runs the reset and   *)
(* progress_hook.  A step is one load or store of a global (the            *)
(* interpreter switches threads between bytecodes, and nothing locks the   *)
(* tracker); what a statement does to locals goes with the store before.   *)

\* the inputs of SpecThreads: one event of each kind
ThreadEvents ==
    {d \in DownloadingEvents : /\ d.downloaded_bytes = 92
                               /\ d.total_bytes \in {Num(100), NoneValue}
                               /\ d.total_bytes_estimate = NoKey
                               /\ d.eta_str = "00:05"}
    \cup FinishedEvents
    \cup {d \in PostprocessingEvents : d.postprocessor \in {"MoveFiles", Absent}}
    \cup OtherEvents
ThreadRuns == {"r1"}
ThreadUrl == <<"https:", "/", "/", "youtu.be", "/", "abc123">>
ThreadResponses == {resp \in Responses : resp.kind = "no_items" \/ resp.title = <<"Demo">>}
ThreadFiles(r) ==
    {files \in SUBSET PipelineFiles(format_type[r], video_title[r]) : Cardinality(files) = 1}

\* no writer of the tracker is between two of its stores
Quiescent ==
    \A r \in Runs : hook_pc[r] = "idle" /\ pc[r] \notin {"L207", "L208", "L209"}

\* line 206
Reset206(r, fmt, q) ==
    /\ pc[r] = "idle"
    /\ current_download_progress' = 0
    /\ pc' = [pc EXCEPT ![r] = "L207"]
    /\ format_type' = [format_type EXCEPT ![r] = fmt]
    /\ quality' = [quality EXCEPT ![r] = q]
    /\ temp_dir' = [temp_dir EXCEPT ![r] = {}]
    /\ UNCHANGED <<current_download_file, current_download_phase, download_eta,
                   post_processing_progress, YOUTUBE_API_KEY, video_title, raised, cause,
                   returned>>

\* line 207
Reset207(r) ==
    /\ pc[r] = "L207"
    /\ current_download_phase' = "Preparing"
    /\ pc' = [pc EXCEPT ![r] = "L208"]
    /\ UNCHANGED <<current_download_file, current_download_progress, download_eta,
                   post_processing_progress, YOUTUBE_API_KEY, format_type, quality,
                   video_title, temp_dir, raised, cause, returned>>

\* line 208
Reset208(r) ==
    /\ pc[r] = "L208"
    /\ download_eta' = ""
    /\ pc' = [pc EXCEPT ![r] = "L209"]
    /\ UNCHANGED <<current_download_file, current_download_progress, current_download_phase,
                   post_processing_progress, YOUTUBE_API_KEY, format_type, quality,
                   video_title, temp_dir, raised, cause, returned>>

\* line 209, and on to the catalog request
Reset209(r, url, mkdtemp_ok) ==
    /\ pc[r] = "L209"
    /\ post_processing_progress' = 0
    /\ to_request(r, url, mkdtemp_ok)
    /\ UNCHANGED <<current_download_file, current_download_progress, current_download_phase,
                   download_eta, YOUTUBE_API_KEY, format_type, quality, video_title,
                   temp_dir, returned>>

\* progress_hook returns
hook_return(r) ==
    /\ hook_pc' = [hook_pc EXCEPT ![r] = "idle"]
    /\ hook_d' = [hook_d EXCEPT ![r] = NoEvent]

hook_goto(r, line) ==
    /\ hook_pc' = [hook_pc EXCEPT ![r] = line]
    /\ UNCHANGED hook_d

\* the pipeline calls progress_hook(d): the tests of lines 37, 51 and 56;
\* at "L56" the last of them has failed
HookCall(r, d) ==
    /\ pc[r] = "pipeline"
    /\ hook_pc[r] = "idle"
    /\ hook_pc' = [hook_pc EXCEPT ![r] =
            IF d.status = "downloading" THEN "L38"
            ELSE IF d.status = "finished" THEN "L52"
            ELSE IF d.status = "postprocessing" THEN "L57"
            ELSE "L56"]
    /\ hook_d' = [hook_d EXCEPT ![r] = d]
    /\ UNCHANGED <<tracker, YOUTUBE_API_KEY, runVars>>

\* line 38, and the tests of lines 41, 43 and 47
Hook38(r) ==
    /\ hook_pc[r] = "L38"
    /\ current_download_phase' = "Downloading"
    /\ UNCHANGED <<current_download_file, current_download_progress, download_eta,
                   post_processing_progress, YOUTUBE_API_KEY, format_type, quality,
                   video_title, temp_dir, returned>>
    /\ IF hook_raises(hook_d[r])
       THEN /\ Raise(r, hook_TypeError, downloader_handler(r, hook_TypeError))
            /\ hook_return(r)
       ELSE /\ UNCHANGED <<pc, raised, cause>>
            /\ IF \/ hook_d[r].total_bytes.has /\ hook_d[r].total_bytes.val > 0
                  \/ hook_d[r].total_bytes_estimate.has /\ hook_d[r].total_bytes_estimate.val > 0
               THEN hook_goto(r, "L42")
               ELSE IF hook_d[r].eta_str # Absent THEN hook_goto(r, "L48") ELSE hook_return(r)

\* line 42 or 44, and the test of line 47
Hook42(r) ==
    /\ hook_pc[r] = "L42"
    /\ current_download_progress' = downloading_progress(hook_d[r])
    /\ IF hook_d[r].eta_str # Absent THEN hook_goto(r, "L48") ELSE hook_return(r)
    /\ UNCHANGED <<current_download_file, current_download_phase, download_eta,
                   post_processing_progress, YOUTUBE_API_KEY, runVars>>

\* line 48
Hook48(r) ==
    /\ hook_pc[r] = "L48"
    /\ download_eta' = hook_d[r].eta_str
    /\ hook_return(r)
    /\ UNCHANGED <<current_download_file, current_download_progress, current_download_phase,
                   post_processing_progress, YOUTUBE_API_KEY, runVars>>

\* line 52
Hook52(r) ==
    /\ hook_pc[r] = "L52"
    /\ current_download_phase' = "Processing"
    /\ hook_goto(r, "L53")
    /\ UNCHANGED <<current_download_file, current_download_progress, download_eta,
                   post_processing_progress, YOUTUBE_API_KEY, runVars>>

\* line 53
Hook53(r) ==
    /\ hook_pc[r] = "L53"
    /\ current_download_progress' = 100
    /\ hook_goto(r, "L54")
    /\ UNCHANGED <<current_download_file, current_download_phase, download_eta,
                   post_processing_progress, YOUTUBE_API_KEY, runVars>>

\* line 54
Hook54(r) ==
    /\ hook_pc[r] = "L54"
    /\ download_eta' = ""
    /\ hook_return(r)
    /\ UNCHANGED <<current_download_file, current_download_progress, current_download_phase,
                   post_processing_progress, YOUTUBE_API_KEY, runVars>>

\* line 57, and the tests of lines 58-63
Hook57(r) ==
    /\ hook_pc[r] = "L57"
    /\ current_download_phase' = "Processing"
    /\ IF hook_d[r].postprocessor \in {"MoveFiles", "FFmpegVideoConvertor", "FFmpegExtractAudio"}
       THEN hook_goto(r, "L60")
       ELSE hook_return(r)
    /\ UNCHANGED <<current_download_file, current_download_progress, download_eta,
                   post_processing_progress, YOUTUBE_API_KEY, runVars>>

\* line 60, 62 or 64
Hook60(r) ==
    /\ hook_pc[r] = "L60"
    /\ post_processing_progress' = postprocessing_progress(hook_d[r])
    /\ hook_return(r)
    /\ UNCHANGED <<current_download_file, current_download_progress, current_download_phase,
                   download_eta, YOUTUBE_API_KEY, runVars>>

\* the end of progress_hook, had it an else branch that starts over
Hook56_StartsOver(r) ==
    /\ hook_pc[r] = "L56"
    /\ current_download_phase' = "Preparing"
    /\ current_download_progress' = 0
    /\ hook_return(r)
    /\ UNCHANGED <<current_download_file, download_eta, post_processing_progress,
                   YOUTUBE_API_KEY, runVars>>

\* no branch of lines 37-65 was taken: progress_hook returns
Hook56(r) ==
    /\ hook_pc[r] = "L56"
    /\ hook_return(r)
    /\ UNCHANGED <<tracker, YOUTUBE_API_KEY, runVars>>

\* the polling thread calls get_download_progress
PollCall ==
    /\ poll_pc \in {"idle", "returned"}
    /\ poll_pc' = "L178"
    /\ poll_overall' = 0
    /\ snapshot' = NoSnapshot

\* line 178
Poll178 ==
    /\ poll_pc = "L178"
    /\ poll_overall' = current_download_progress
    /\ poll_pc' = "L179"
    /\ UNCHANGED snapshot

\* line 179
Poll179 ==
    /\ poll_pc = "L179"
    /\ poll_pc' = IF current_download_phase = "Processing" THEN "L181" ELSE "L186"
    /\ UNCHANGED <<poll_overall, snapshot>>

\* line 181
Poll181 ==
    /\ poll_pc = "L181"
    /\ poll_pc' = IF post_processing_progress > 0 THEN "L182" ELSE "L186"
    /\ UNCHANGED <<poll_overall, snapshot>>

\* line 182
Poll182 ==
    /\ poll_pc = "L182"
    /\ poll_overall' = post_processing_progress
    /\ poll_pc' = "L186"
    /\ UNCHANGED snapshot

\* lines 185-186
Poll186 ==
    /\ poll_pc = "L186"
    /\ snapshot' = [snapshot EXCEPT !.progress = poll_overall, !.file = current_download_file]
    /\ poll_pc' = "L187"
    /\ UNCHANGED poll_overall

\* line 187
Poll187 ==
    /\ poll_pc = "L187"
    /\ snapshot' = [snapshot EXCEPT !.phase = current_download_phase]
    /\ poll_pc' = "L188"
    /\ UNCHANGED poll_overall

\* line 188, and the return
Poll188 ==
    /\ poll_pc = "L188"
    /\ snapshot' = [snapshot EXCEPT !.eta = download_eta]
    /\ poll_pc' = "returned"
    /\ UNCHANGED poll_overall

\* The history variables follow every step.  While a poll runs, seen
\* gathers what the tracker showed at the last writer's end before the poll
\* began and at every writer's end since; when the poll returns, seen keeps
\* of these the ones the returned dict equals.
History ==
    /\ committed' = IF Quiescent' THEN Triple(get_download_progress') ELSE committed
    /\ seen' = IF poll_pc' = "L178" THEN {committed'}
               ELSE IF poll_pc \in {"idle", "returned"} THEN seen
               ELSE IF poll_pc' = "returned"
               THEN {t \in seen \cup {committed'} : t = Triple(snapshot')}
               ELSE seen \cup {committed'}

\* a step of a call or of its hook, and a step of the polling thread
CallStep(A) == A /\ UNCHANGED <<hookVars, pollVars>> /\ History
HookStep(A) == A /\ UNCHANGED <<appVars, pollVars>> /\ History
\* a step of the polling thread, had line 182 stored into the global
PollStep_StoresGlobal(A) ==
    /\ A
    /\ IF poll_pc = "L182"
       THEN /\ current_download_progress' = post_processing_progress
            /\ UNCHANGED <<current_download_file, current_download_phase, download_eta,
                           post_processing_progress>>
       ELSE UNCHANGED tracker
    /\ UNCHANGED <<YOUTUBE_API_KEY, runVars, appVars, hookVars>>
    /\ History
PollStep(A) == A /\ UNCHANGED <<tracker, YOUTUBE_API_KEY, runVars, appVars, hookVars>> /\ History

\* the /download_progress endpoint on what get_download_progress returned
\* (app.py, lines 127-128)
download_progress(progress) == [status |-> 200, json |-> progress]

\* the next statement of the polling thread
PollThread ==
    \/ PollStep(PollCall)
    \/ PollStep(Poll178)
    \/ PollStep(Poll179)
    \/ PollStep(Poll181)
    \/ PollStep(Poll182)
    \/ PollStep(Poll186)
    \/ PollStep(Poll187)
    \/ PollStep(Poll188)

\* One download_media call at a time, and one polling thread beside it.
NextThreads ==
    \/ \E r \in ThreadRuns, fmt \in {"mp3", "mp4"} :
            CallStep(SingleFlight(r) /\ Reset206(r, fmt, "720p") /\ UNCHANGED appVars)
    \/ \E r \in ThreadRuns : CallStep(Reset207(r) /\ UNCHANGED appVars)
    \/ \E r \in ThreadRuns : CallStep(Reset208(r) /\ UNCHANGED appVars)
    \/ \E r \in ThreadRuns :
            CallStep(Reset209(r, ThreadUrl, TRUE) /\ UNCHANGED <<warned, response>>)
    \/ \E r \in ThreadRuns, resp \in ThreadResponses :
            CallStep(ResolveFails(r, resp) /\ UNCHANGED <<warned, response>>)
    \/ \E r \in ThreadRuns, resp \in ThreadResponses :
            CallStep(Resolved(r, resp) /\ UNCHANGED <<warned, response>>)
    \/ \E r \in ThreadRuns, e \in PipelineErrors :
            CallStep(hook_pc[r] = "idle" /\ PipelineFails(r, e, {}) /\ UNCHANGED appVars)
    \/ \E r \in ThreadRuns : \E files \in ThreadFiles(r) :
            CallStep(hook_pc[r] = "idle" /\ PipelineReturns(r, files) /\ UNCHANGED appVars)
    \/ \E r \in ThreadRuns : CallStep(Finalize(r) /\ UNCHANGED <<request, response>>)
    \/ \E r \in ThreadRuns : CallStep(FinalizeFails(r) /\ UNCHANGED <<request, response>>)
    \/ \E r \in ThreadRuns : CallStep(Collect(r))
    \/ \E r \in ThreadRuns, d \in ThreadEvents : HookStep(HookCall(r, d))
    \/ \E r \in ThreadRuns : HookStep(Hook38(r))
    \/ \E r \in ThreadRuns : HookStep(Hook42(r))
    \/ \E r \in ThreadRuns : HookStep(Hook48(r))
    \/ \E r \in ThreadRuns : HookStep(Hook52(r))
    \/ \E r \in ThreadRuns : HookStep(Hook53(r))
    \/ \E r \in ThreadRuns : HookStep(Hook54(r))
    \/ \E r \in ThreadRuns : HookStep(Hook57(r))
    \/ \E r \in ThreadRuns : HookStep(Hook60(r))
    \/ \E r \in ThreadRuns : HookStep(Hook56(r))
    \/ PollStep(PollCall)
    \/ PollStep(Poll178)
    \/ PollStep(Poll179)
    \/ PollStep(Poll181)
    \/ PollStep(Poll182)
    \/ PollStep(Poll186)
    \/ PollStep(Poll187)
    \/ PollStep(Poll188)

SpecThreads == Init /\ [][NextThreads]_vars

---------------------------------------------------------------------------
(* Two download_media calls in two request threads of the server, each     *)
(* handler step atomic: nothing of the code keeps a second call from       *)
(* starting while the first is under way.                                  *)

\* the inputs of SpecOverlap: either title, or no such video
OverlapResponses == {resp \in Responses : resp.kind \in {"ok", "no_items"}}

NextOverlap ==
    \/ \E r \in Runs, fmt \in {"mp3", "mp4"} :
            Start(r, ThreadUrl, fmt, "720p", TRUE) /\ UNCHANGED <<warned, response, threadVars>>
    \/ \E r \in Runs, resp \in OverlapResponses :
            ResolveFails(r, resp) /\ UNCHANGED <<warned, response, threadVars>>
    \/ \E r \in Runs, resp \in OverlapResponses :
            Resolved(r, resp) /\ UNCHANGED <<warned, response, threadVars>>
    \/ \E r \in Runs, d \in ThreadEvents : HookEvent(r, d) /\ UNCHANGED <<appVars, threadVars>>
    \/ \E r \in Runs, d \in ThreadEvents : HookRaises(r, d) /\ UNCHANGED <<appVars, threadVars>>
    \/ \E r \in Runs, e \in PipelineErrors :
            PipelineFails(r, e, {}) /\ UNCHANGED <<appVars, threadVars>>
    \/ \E r \in Runs : \E files \in ThreadFiles(r) :
            PipelineReturns(r, files) /\ UNCHANGED <<appVars, threadVars>>
    \/ \E r \in Runs : Finalize(r) /\ UNCHANGED <<request, response, threadVars>>
    \/ \E r \in Runs : FinalizeFails(r) /\ UNCHANGED <<request, response, threadVars>>
    \/ \E r \in Runs : Collect(r) /\ UNCHANGED threadVars

SpecOverlap == Init /\ [][NextOverlap]_vars

---------------------------------------------------------------------------
(* Claims on the progress tracker, under Spec *)

\* a step of a call already started: no download_media call begins
WithinRun == \A r \in Runs : pc[r] = "idle" => pc'[r] = "idle"

PhaseRank(phase) ==
    CASE phase = "Preparing" -> 0
      [] phase = "Downloading" -> 1
      [] phase = "Processing" -> 2
      [] phase = "Complete" -> 3

\* the percent an event with a known total, or else an estimate, should give
FloorPercent(d) ==
    IF d.total_bytes.has /\ d.total_bytes.val > 0
    THEN (d.downloaded_bytes * 100) \div d.total_bytes.val
    ELSE (d.downloaded_bytes * 100) \div d.total_bytes_estimate.val

\* C1: within one run of download_media the percent that
\* get_download_progress reports never decreases from a snapshot to a later one.
C1_PercentNeverDecreases ==
    [][WithinRun => get_download_progress'.progress >= get_download_progress.progress]_vars

\* C2: within one run the phase only moves forward along Preparing,
\* Downloading, Processing, Complete; no event moves it back.
C2_PhaseOnlyForward ==
    [][WithinRun => PhaseRank(current_download_phase') >= PhaseRank(current_download_phase)]_vars

\* C3: a post-processing event never lowers the reported percent, and leaves
\* it unchanged when it is already above the floor of the step.
C3_FloorNeverLowers ==
    [][\A r \in Runs, d \in PostprocessingEvents :
            HookEvent(r, d) =>
                /\ get_download_progress'.progress >= get_download_progress.progress
                /\ (get_download_progress.progress > postprocessing_progress(d)
                        => get_download_progress'.progress = get_download_progress.progress)]_vars

\* C4: right after the reset of a download_media call, before the metadata is
\* resolved, the snapshot is percent 0, phase Preparing, no file label, no eta.
C4_SnapshotAfterReset ==
    \A r \in Runs :
        pc[r] = "resolving" =>
            get_download_progress =
                [progress |-> 0, file |-> <<>>, phase |-> "Preparing", eta |-> ""]

\* C6: after a finished event, in whatever state it arrives, the snapshot
\* reports phase Processing, percent 100 and an empty eta.
C6_FinishedSnapshot ==
    [][\A r \in Runs, d \in FinishedEvents :
            HookEvent(r, d) =>
                /\ get_download_progress'.phase = "Processing"
                /\ get_download_progress'.progress = 100
                /\ get_download_progress'.eta = ""]_vars

\* C7: in every reachable state the reported percent is an integer between 0
\* and 100.
C7_PercentInRange == get_download_progress.progress \in 0..100

\* C8: after an in-progress event with a known total above zero, or else an
\* estimate above zero, the snapshot reports the floor of
\* bytes * 100 / total (the known total first), phase Downloading, and the
\* eta of the event when it has one.
C8_InProgressSnapshot ==
    [][\A r \in Runs, d \in DownloadingEvents :
            (/\ HookEvent(r, d)
             /\ \/ d.total_bytes.has /\ d.total_bytes.val > 0
                \/ d.total_bytes_estimate.has /\ d.total_bytes_estimate.val > 0)
            => /\ get_download_progress'.progress = FloorPercent(d)
               /\ get_download_progress'.phase = "Downloading"
               /\ (d.eta_str # Absent => get_download_progress'.eta = d.eta_str)]_vars

\* What C8 states, with the percent allowed to fall one short of the floor:
\* this holds, so the double arithmetic of lines 42 and 44 is the only place
\* where progress_hook departs from C8.
InProgressSnapshotAsComputed ==
    [][\A r \in Runs, d \in DownloadingEvents :
            (/\ HookEvent(r, d)
             /\ \/ d.total_bytes.has /\ d.total_bytes.val > 0
                \/ d.total_bytes_estimate.has /\ d.total_bytes_estimate.val > 0)
            => /\ get_download_progress'.progress \in {FloorPercent(d), FloorPercent(d) - 1}
               /\ get_download_progress'.phase = "Downloading"
               /\ (d.eta_str # Absent => get_download_progress'.eta = d.eta_str)]_vars

---------------------------------------------------------------------------
(* Claims on download_media, under Spec *)

\* C9: every failure inside download_media ends the call with a ValueError
\* whose message starts with "Download failed:" and ends with the message of
\* the original failure, unchanged; the call returns no path, and a call in
\* which something failed has raised (and stays so while the endpoint
\* answers for it).
C9_FailuresWrapped ==
    \A r \in Runs :
        /\ (pc[r] = "raised" \/ raised[r] # NoExc) =>
                /\ pc[r] \in {"raised", "responded"}
                /\ raised[r].kind = "ValueError"
                /\ StartsWith(raised[r].msg, <<"Download failed:">>)
                /\ cause[r] # NoExc
                /\ EndsWith(raised[r].msg, cause[r].msg)
                /\ returned[r] = <<>>
        /\ cause[r] # NoExc => raised[r] # NoExc

\* a rename failure in the finalizer, wrapped by download_mp3 and by
\* download_media
C9_Witness ==
    \E r \in Runs :
        /\ pc[r] = "raised"
        /\ cause[r] = rename_OSError
        /\ raised[r].msg = <<"Download failed:", "Download failed:">> \o rename_OSError.msg

\* C10: when temp_{title}.mp3 is in the temp directory after the pipeline and
\* download_mp3 returns, it returns {title}.mp3, which is then in the
\* directory, temp_{title}.mp3 is no longer there, and every other file is
\* where it was.
C10_FinalizerPrimaryPath ==
    [][\A r \in Runs :
            (/\ pc[r] = "finalize"
             /\ mp3_final_output(video_title[r]) \in temp_dir[r]
             /\ pc'[r] = "returned")
            => /\ returned'[r] = mp3_output_file(video_title[r])
               /\ returned'[r] \in temp_dir'[r]
               /\ mp3_final_output(video_title[r]) \notin temp_dir'[r]
               /\ temp_dir'[r] \ {mp3_output_file(video_title[r])}
                    = temp_dir[r] \ {mp3_final_output(video_title[r])}]_vars

\* the expected file was renamed while two other temp_*.mp3 files stayed
C10_Witness ==
    \E r \in Runs :
        /\ pc[r] = "returned"
        /\ format_type[r] = "mp3"
        /\ returned[r] = mp3_output_file(video_title[r])
        /\ temp_dir[r] = {mp3_output_file(video_title[r]), <<"temp_", "x", ".mp3">>,
                          <<"temp_", "y", ".mp3">>}

\* a file name of the temp_*.mp3 convention
MatchesConvention(file) ==
    Len(file) >= 2 /\ file[1] = "temp_" /\ file[Len(file)] = ".mp3"

\* C11: when temp_{title}.mp3 is not in the temp directory after the
\* pipeline but files named temp_*.mp3 are, and download_mp3 returns, exactly
\* one of these files is gone from its name and is {title}.mp3, every other
\* file is where it was, and the path returned is {title}.mp3, which exists.
C11_FinalizerFallbackPath ==
    [][\A r \in Runs :
            (/\ pc[r] = "finalize"
             /\ mp3_final_output(video_title[r]) \notin temp_dir[r]
             /\ \E file \in temp_dir[r] : MatchesConvention(file)
             /\ pc'[r] = "returned")
            => /\ returned'[r] = mp3_output_file(video_title[r])
               /\ returned'[r] \in temp_dir'[r]
               /\ \E file \in temp_dir[r] :
                    /\ MatchesConvention(file)
                    /\ file \notin temp_dir'[r]
                    /\ temp_dir'[r] = (temp_dir[r] \ {file}) \cup {returned'[r]}]_vars

\* the expected file was missing (the warning was logged); of temp_x.mp3 and
\* temp_y.mp3 one was renamed, the other stayed, and so did the .webm file
C11_Witness ==
    \E r \in Runs :
        /\ pc[r] = "returned"
        /\ warned[r]
        /\ returned[r] \in temp_dir[r]
        /\ <<"temp_", "x", ".mp3">> \notin temp_dir[r]
        /\ <<"temp_", "y", ".mp3">> \in temp_dir[r]
        /\ <<"temp_">> \o video_title[r] \o <<".webm">> \in temp_dir[r]

\* C12: when the temp directory holds neither temp_{title}.mp3 nor any file
\* named temp_*.mp3 after the pipeline, download_mp3 does not raise: it
\* returns {title}.mp3, no file of that name exists, and the directory is as
\* the pipeline left it.
C12_FinalizerSoftFailure ==
    [][\A r \in Runs :
            (/\ pc[r] = "finalize"
             /\ mp3_final_output(video_title[r]) \notin temp_dir[r]
             /\ ~ \E file \in temp_dir[r] : MatchesConvention(file)
             /\ pc'[r] # "finalize")
            => /\ pc'[r] = "returned"
               /\ raised'[r] = NoExc
               /\ returned'[r] = mp3_output_file(video_title[r])
               /\ returned'[r] \notin temp_dir'[r]
               /\ temp_dir'[r] = temp_dir[r]]_vars

\* the call returned a path that is not in the directory, which holds the
\* .webm file the pipeline left
C12_Witness ==
    \E r \in Runs :
        /\ pc[r] = "returned"
        /\ warned[r]
        /\ returned[r] = mp3_output_file(video_title[r])
        /\ returned[r] \notin temp_dir[r]
        /\ temp_dir[r] = {<<"temp_">> \o video_title[r] \o <<".webm">>}

\* C17: the first step of every download_media call resets the tracker; a
\* call enters the pipeline only from a resolution that succeeded, with the
\* sanitized title stored as the file label; the finalizer is entered only
\* by an mp3 call whose pipeline returned without error, and only the
\* pipeline and the finalizer change the directory during a call; a call
\* that raised (a failed resolution among them) never enters the pipeline,
\* and the event fields of the tracker change only at a reset or while a
\* call is in the pipeline.
C17_OrchestrationOrder ==
    [][\A r \in Runs :
            /\ (pc[r] = "idle" /\ pc'[r] \notin {"idle", "responded"})
                    => /\ current_download_progress' = 0
                       /\ current_download_phase' = "Preparing"
                       /\ download_eta' = ""
                       /\ post_processing_progress' = 0
                       /\ pc'[r] \in {"resolving", "raised"}
            /\ (pc'[r] = "pipeline" /\ pc[r] # "pipeline")
                    => /\ pc[r] = "resolving"
                       /\ video_title'[r] \in {clean_filename(t) : t \in RawTitles}
                       /\ current_download_file' = video_title'[r]
            /\ (pc'[r] = "finalize" /\ pc[r] # "finalize")
                    => /\ pc[r] = "pipeline"
                       /\ format_type[r] = "mp3"
                       /\ raised'[r] = NoExc
            /\ (temp_dir'[r] # temp_dir[r] /\ pc'[r] # "idle")
                    => pc[r] \in {"pipeline", "finalize"}
            /\ pc[r] = "raised" => pc'[r] \in {"raised", "responded", "idle"}
            /\ (<<current_download_progress, current_download_phase, download_eta,
                   post_processing_progress>>' #
                 <<current_download_progress, current_download_phase, download_eta,
                   post_processing_progress>>)
                    => \E o \in Runs : pc[o] \in {"idle", "pipeline"} /\ pc'[o] # "idle"]_vars

\* an mp3 call went through reset, resolution, label, pipeline (with its
\* events) and the rename of the finalizer
C17_Witness ==
    \E r \in Runs :
        /\ pc[r] = "returned"
        /\ format_type[r] = "mp3"
        /\ ~warned[r]
        /\ returned[r] \in temp_dir[r]
        /\ current_download_file = video_title[r]
        /\ current_download_phase = "Processing"
        /\ current_download_progress = 100
        /\ post_processing_progress = 95

EmbeddedId(url) ==
    IF Len(url) >= 6 /\ url[4] = "youtu.be" THEN <<url[6]>>
    ELSE IF Len(url) >= 6 /\ url[4] \in Hosts /\ url[6] = "watch"
    THEN IF \E i \in 1..Len(url) - 1 : url[i] = "v="
         THEN <<url[(CHOOSE i \in 1..Len(url) - 1 : url[i] = "v=") + 1]>>
         ELSE <<>>
    ELSE IF Len(url) >= 8 /\ url[4] \in Hosts /\ url[6] \in {"shorts", "embed"}
    THEN <<url[8]>>
    ELSE <<>>

\* C16: for a URL of one of the four accepted shapes, with or without
\* further query parameters or a trailing path segment, the video id
\* get_video_info takes from it is the identifier the URL embeds; for a URL
\* of none of the shapes the call fails with the invalid-URL error.
C16_ExtractVideoId ==
    \A r \in Runs :
        request[r] # NoRequest =>
            IF EmbeddedId(request[r].url) # <<>>
            THEN request[r].video_id = EmbeddedId(request[r].url)
            ELSE pc[r] \in {"raised", "responded"} /\ cause[r] = no_id_ValueError

---------------------------------------------------------------------------
(* Claims on the /download endpoint, under Spec *)

\* C13: when download_media raised, the response of /download is a JSON
\* error with status 400 or 500 and no byte of a file is sent; nothing is
\* sent before the endpoint has responded, and a file body belongs only to
\* a call that returned a path.
C13_FailureBeforeStreaming ==
    \A r \in Runs :
        /\ (pc[r] = "responded" /\ raised[r] # NoExc)
                => /\ response[r].body = "json"
                   /\ response[r].status \in {400, 500}
                   /\ response[r].error # <<>>
                   /\ ~response[r].sent
        /\ pc[r] # "responded" => response[r] = NoResponse
        /\ (response[r].body \in {"file", "broken"} \/ response[r].sent)
                => raised[r] = NoExc /\ returned[r] # <<>>

\* the pipeline failed after it had left files in the directory: the
\* endpoint answered 400 with a JSON error
C13_Witness ==
    \E r \in Runs :
        /\ pc[r] = "responded"
        /\ cause[r].kind = "DownloadError"
        /\ temp_dir[r] # {}
        /\ response[r].status = 400
        /\ response[r].body = "json"

\* C19: when download_media returned a path at which no file exists, the
\* response of /download is the generic unexpected-error JSON with
\* status 500, and no file body, empty or partial, goes out with status 200.
C19_SoftFailureAnswers500 ==
    \A r \in Runs :
        (/\ pc[r] = "responded"
         /\ returned[r] # <<>>
         /\ returned[r] \notin temp_dir[r])
        => /\ response[r].status = 500
           /\ response[r].body = "json"
           /\ response[r].error = <<"An unexpected error occurred. Please try again later.">>
           /\ ~response[r].sent

\* the finalizer found nothing to rename (it logged the warning) and
\* returned {title}.mp3; the endpoint answered 500
C19_Witness ==
    \E r \in Runs :
        /\ pc[r] = "responded"
        /\ format_type[r] = "mp3"
        /\ warned[r]
        /\ returned[r] = mp3_output_file(video_title[r])
        /\ returned[r] \notin temp_dir[r]
        /\ response[r].status = 500

---------------------------------------------------------------------------
(* Claims on overlapping calls, under SpecOverlap *)

\* C20: whatever the other call is doing, the start of a download_media
\* call sets the shared percent to 0 and the phase to Preparing (and clears
\* eta and the post-processing floor) and leaves the file label; a call
\* whose metadata is resolved makes its title the file label, whatever the
\* label was; and a step that changes the tracker without moving any call
\* (an event of either call) leaves nothing in any call, so the snapshot
\* does not tell whose event it was.
C20_SharedTracker ==
    [][/\ \A r \in Runs :
            /\ (pc[r] = "idle" /\ pc'[r] # "idle")
                    => /\ current_download_progress' = 0
                       /\ current_download_phase' = "Preparing"
                       /\ download_eta' = ""
                       /\ post_processing_progress' = 0
                       /\ current_download_file' = current_download_file
            /\ (pc[r] = "resolving" /\ video_title'[r] # <<>>)
                    => current_download_file' = video_title'[r]
       /\ (tracker' # tracker /\ pc' = pc) => UNCHANGED <<runVars, appVars>>]_vars

\* both calls are in the pipeline with different titles; the label is the
\* title of r2 and the percent is that of an event
C20_Witness ==
    /\ pc["r1"] = "pipeline"
    /\ pc["r2"] = "pipeline"
    /\ video_title["r1"] # video_title["r2"]
    /\ current_download_file = video_title["r2"]
    /\ current_download_phase = "Downloading"
    /\ current_download_progress = 92

---------------------------------------------------------------------------
(* Claims on the threads, under SpecThreads *)

\* C14: a progress_hook call with an event whose status is none of
\* downloading, finished and postprocessing raises nothing and stores
\* nothing: from the call to the return the five tracker variables, and so
\* the snapshot get_download_progress would give, stay as they were, and the
\* pipeline goes on.
C14_UnrecognizedEventNoOp ==
    [][\A r \in Runs :
            (/\ hook_pc'[r] # hook_pc[r]
             /\ \/ hook_d'[r].status \notin {"downloading", "finished", "postprocessing", "none"}
                \/ hook_d[r].status \notin {"downloading", "finished", "postprocessing", "none"})
            => /\ hook_pc[r] \in {"idle", "L56"}
               /\ hook_pc'[r] \in {"idle", "L56"}
               /\ UNCHANGED tracker
               /\ get_download_progress' = get_download_progress
               /\ pc'[r] = "pipeline"
               /\ raised'[r] = NoExc]_vars

\* progress_hook has tested the status of an "error" event against the three
\* kinds, in a run whose tracker shows 92 percent, Downloading, eta 00:05
C14_Witness ==
    \E r \in Runs :
        /\ hook_pc[r] = "L56"
        /\ hook_d[r].status = "error"
        /\ current_download_progress = 92
        /\ current_download_phase = "Downloading"
        /\ download_eta = "00:05"
        /\ current_download_file # <<>>

\* C15: no statement of get_download_progress changes a tracker variable or
\* anything of a download_media call; in every reachable state the polling
\* thread can take its next statement (a poll can always be made and always
\* goes on to its return); and what a poll returns has the four fields
\* progress, file, phase and eta, which /download_progress sends with 200.
C15_PollingReadOnly ==
    /\ [][<<poll_pc, poll_overall, snapshot>>' # <<poll_pc, poll_overall, snapshot>>
            => UNCHANGED <<tracker, YOUTUBE_API_KEY, runVars, appVars, hookVars>>]_vars
    /\ [](ENABLED PollThread)
    /\ [](poll_pc = "returned"
            => /\ DOMAIN snapshot = {"progress", "file", "phase", "eta"}
               /\ snapshot.progress \in Nat
               /\ snapshot.phase \in {"Preparing", "Downloading", "Processing"}
               /\ snapshot.file \in {<<>>} \cup {clean_filename(t) : t \in RawTitles}
               /\ snapshot.eta \in {""} \cup (EtaStrings \ {Absent})
               /\ download_progress(snapshot).status = 200
               /\ download_progress(snapshot).json = snapshot)

\* a poll made after a run failed returned the label and the percent the
\* run left
C15_Witness ==
    \E r \in Runs :
        /\ pc[r] = "raised"
        /\ poll_pc = "returned"
        /\ seen = {committed}
        /\ snapshot.file # <<>>
        /\ snapshot.progress = 92

\* C5: the percent, phase and eta a get_download_progress call returns are
\* those the tracker showed before or after some whole event (or reset) of
\* the time the call ran, never a mix of two.
C5_NoTornSnapshot == poll_pc = "returned" => Triple(snapshot) \in seen

====
